---- MODULE Spec2Model ----
(***************************************************************************)
(* Model of quickset_pan_tilt/protocol.py: the QuickSet pan-tilt packet    *)
(* codec (escaping, LRC, 16-bit integer encoding) and the two protocol     *)
(* variants PTCR20 (addressed) and PTHR90 (unaddressed).                   *)
(*                                                                         *)
(* Bytes are integers 0..255, a bytearray is a sequence of bytes.  An      *)
(* angle in degrees is carried as an integer number of hundredths of a     *)
(* degree (10.0 degrees is 1000); int(pan * 10) is then truncation toward  *)
(* zero of hundredths / 10.                                                *)
(***************************************************************************)
EXTENDS Integers, Sequences, FiniteSets, TLC

VARIABLES
    x,          \* codec: the byte sequence handed to the codec
    packet,     \* codec: the argument of remove_escape_sequences
    i,          \* codec: number of bytes of packet the for loop has consumed
    found_esc,  \* codec: the found_esc local of remove_escape_sequences
    new_packet, \* codec: the new_packet local of remove_escape_sequences
    pc,         \* codec: position ("start", "loop", "returned")
    self,       \* protocol: the variant object (class, registry, identity)
    ctor,       \* protocol: the constructor call that built self
    call,       \* protocol: the last call made on self
    ret,        \* protocol: what the last call returned or raised
    failed      \* protocol: number of calls on self that raised so far

vars == <<x, packet, i, found_esc, new_packet, pc, self, ctor, call, ret, failed>>
codecVars == <<x, packet, i, found_esc, new_packet, pc>>
protoVars == <<self, ctor, call, ret, failed>>

----------------------------------------------------------------------------
(* Bounds of the model *)

MaxLen == 3
MaxFailed == 2

(* CONTROL_CHARS *)
STX == 2
ETX == 3
ACK == 6
NACK == 21
ESC == 27
CONTROL_CHARS == {STX, ETX, ACK, NACK, ESC}

Byte == 0..255

(* Byte values the codec inputs are drawn from: every control character,   *)
(* their escaped forms, and plain bytes with and without bit 7.            *)
ByteSample == {0, 2, 3, 6, 21, 27, 65, 128, 130, 155, 255}

RECURSIVE SeqsUpTo(_, _)
SeqsUpTo(S, n) ==
    IF n = 0 THEN {<<>>}
    ELSE LET shorter == SeqsUpTo(S, n - 1)
         IN shorter \cup {Append(s, b) : s \in {t \in shorter : Len(t) = n - 1}, b \in S}

----------------------------------------------------------------------------
(* Bit operations on bytes *)

RECURSIVE XorBits(_, _, _)
XorBits(a, b, n) ==
    IF n = 0 THEN 0
    ELSE ((a + b) % 2) + 2 * XorBits(a \div 2, b \div 2, n - 1)

\* a ^ b on bytes
Xor(a, b) == XorBits(a, b, 8)

\* byte | 0b1000_0000
SetBit7(byte) == IF byte >= 128 THEN byte ELSE byte + 128

\* byte & 0b0111_1111
ClearBit7(byte) == byte % 128

----------------------------------------------------------------------------
(* Static methods of QuicksetProtocol *)

Raise(exc) == [kind |-> "raise", exc |-> exc, bytes |-> <<>>]
Bytes(b) == [kind |-> "bytes", exc |-> "", bytes |-> b]
ReturnNone == [kind |-> "None", exc |-> "", bytes |-> <<>>]

\* int_to_bytes with byteorder='big'
int_to_bytes_big_endian(integer) ==
    IF integer < -32768 \/ integer > 32767
    THEN Raise("OverflowError")
    ELSE LET u == (integer + 65536) % 65536
         IN Bytes(<<u \div 256, u % 256>>)

\* integer.to_bytes(length=2, byteorder='little', signed=True)
int_to_bytes(integer) ==
    IF integer < -32768 \/ integer > 32767
    THEN Raise("OverflowError")
    ELSE LET u == (integer + 65536) % 65536
         IN Bytes(<<u % 256, u \div 256>>)

\* struct.unpack('<h', two_bytes)[0]
bytes_to_int(two_bytes) ==
    LET u == two_bytes[1] + 256 * two_bytes[2]
    IN IF u >= 32768 THEN u - 65536 ELSE u

RECURSIVE XorFold(_, _)
XorFold(lrc, byte_array) ==
    IF byte_array = <<>> THEN lrc
    ELSE XorFold(Xor(lrc, Head(byte_array)), Tail(byte_array))

\* compute_lrc folding the data bytes only, the command byte left out
compute_lrc_data_only(byte_array) == <<XorFold(0, Tail(byte_array))>>

compute_lrc(byte_array) == <<XorFold(0, byte_array)>>

\* insert_escape_sequence without 'byte |= 0b1000_0000'
insert_escape_sequence_bit7_unset(byte) == <<ESC, byte>>

insert_escape_sequence(byte) == <<ESC, SetBit7(byte)>>

RECURSIVE escape_control_chars(_)
escape_control_chars(p) ==
    IF p = <<>> THEN <<>>
    ELSE (IF Head(p) \in CONTROL_CHARS
          THEN insert_escape_sequence(Head(p))
          ELSE <<Head(p)>>) \o escape_control_chars(Tail(p))

----------------------------------------------------------------------------
(* remove_escape_sequences, one for-loop iteration per step *)

\* a byte sequence is at hand, no variant is constructed
CodecInit ==
    /\ x \in SeqsUpTo(ByteSample, MaxLen)
    /\ packet = <<>>
    /\ i = 0
    /\ found_esc = FALSE
    /\ new_packet = <<>>
    /\ pc = "start"
    /\ self = [class |-> "none"]
    /\ ctor = [class |-> "none"]
    /\ call = [op |-> "none"]
    /\ ret = [kind |-> "none"]
    /\ failed = 0

\* remove_escape_sequences(escape_control_chars(x)) is entered
CallOnEscaped ==
    /\ pc = "start"
    /\ packet' = escape_control_chars(x)
    /\ i' = 0
    /\ found_esc' = FALSE
    /\ new_packet' = <<>>
    /\ pc' = "loop"
    /\ UNCHANGED x

\* remove_escape_sequences(x) is entered on received bytes x
CallOnReceived ==
    /\ pc = "start"
    /\ packet' = x
    /\ i' = 0
    /\ found_esc' = FALSE
    /\ new_packet' = <<>>
    /\ pc' = "loop"
    /\ UNCHANGED x

\* byte == ESC: the byte is thrown out and the flag set
LoopEsc ==
    /\ pc = "loop"
    /\ i < Len(packet)
    /\ packet[i + 1] = ESC
    /\ found_esc' = TRUE
    /\ i' = i + 1
    /\ UNCHANGED <<x, packet, new_packet, pc>>

\* else branch: the byte is appended, bit 7 cleared when found_esc is set;
\* the assignment at line 163 is to found_sec, so found_esc keeps its value
LoopByte ==
    /\ pc = "loop"
    /\ i < Len(packet)
    /\ packet[i + 1] # ESC
    /\ new_packet' = Append(new_packet,
                            IF found_esc THEN ClearBit7(packet[i + 1])
                            ELSE packet[i + 1])
    /\ found_esc' = found_esc
    /\ i' = i + 1
    /\ UNCHANGED <<x, packet, pc>>

\* the loop is exhausted: return new_packet
Return ==
    /\ pc = "loop"
    /\ i = Len(packet)
    /\ pc' = "returned"
    /\ UNCHANGED <<x, packet, i, found_esc, new_packet>>

CodecNext ==
    \/ CallOnEscaped /\ UNCHANGED protoVars
    \/ CallOnReceived /\ UNCHANGED protoVars
    \/ LoopEsc /\ UNCHANGED protoVars
    \/ LoopByte /\ UNCHANGED protoVars
    \/ Return /\ UNCHANGED protoVars

SpecCodec == CodecInit /\ [][CodecNext]_vars

----------------------------------------------------------------------------
(* Arguments of a call.  A positional argument is None or a number: for    *)
(* pan and tilt the number is the angle in hundredths of a degree, for the *)
(* timeout it is the integer number of seconds.                            *)

None == [none |-> TRUE, v |-> 0]
Num(n) == [none |-> FALSE, v |-> n]

\* int(angle * 10), the angle given in hundredths of a degree
int_times_10(h) == IF h >= 0 THEN h \div 10 ELSE -((-h) \div 10)

----------------------------------------------------------------------------
(* The command-specific assemble methods; data is the tuple *data *)

\* PTCR20._assemble_get_status / PTHR90._assemble_get_status: pass
assemble_get_status(data) ==
    IF Len(data) # 0 THEN Raise("TypeError") ELSE ReturnNone

\* 'home': lambda: None
assemble_home(data) ==
    IF Len(data) # 0 THEN Raise("TypeError") ELSE ReturnNone

assemble_fault_reset(data) ==
    IF Len(data) # 0 THEN Raise("TypeError") ELSE Bytes(<<1, 0, 0, 0, 0>>)

assemble_get_comm_timeout(data) ==
    IF Len(data) # 0 THEN Raise("TypeError") ELSE Bytes(<<128>>)

assemble_set_comm_timeout(data) ==
    IF Len(data) # 1 THEN Raise("TypeError")
    ELSE LET timeout == data[1]
         IN IF timeout.none THEN Raise("TypeError")
            ELSE IF timeout.v > 120 \/ timeout.v < 0 THEN ReturnNone
            ELSE Bytes(<<timeout.v>>)

\* the common tail of the two move assemblers (lines 388-397, 435-444)
move_data_bytes(pan, tilt) ==
    LET pan_bytes == int_to_bytes(int_times_10(pan))
        tilt_bytes == int_to_bytes(int_times_10(tilt))
    IN IF pan_bytes.kind = "raise" THEN pan_bytes
       ELSE IF tilt_bytes.kind = "raise" THEN tilt_bytes
       ELSE Bytes(pan_bytes.bytes \o tilt_bytes.bytes)

assemble_move_to_entered(data) ==
    IF Len(data) > 2 THEN Raise("TypeError")
    ELSE LET pan0 == IF Len(data) >= 1 THEN data[1] ELSE None
             tilt0 == IF Len(data) >= 2 THEN data[2] ELSE None
             pan == IF pan0.none THEN 99990 ELSE pan0.v
             tilt == IF tilt0.none THEN 99990 ELSE tilt0.v
         IN move_data_bytes(pan, tilt)

assemble_move_to_delta(data) ==
    IF Len(data) > 2 THEN Raise("TypeError")
    ELSE LET pan0 == IF Len(data) >= 1 THEN data[1] ELSE None
             tilt0 == IF Len(data) >= 2 THEN data[2] ELSE None
             pan == IF pan0.none THEN 0 ELSE pan0.v
             tilt == IF tilt0.none THEN 0 ELSE tilt0.v
         IN move_data_bytes(pan, tilt)

\* self._COMMANDS[cmd_name]['assemble'](*data)
CallAssemble(fn, data) ==
    CASE fn = "_assemble_get_status" -> assemble_get_status(data)
      [] fn = "_assemble_move_to_entered" -> assemble_move_to_entered(data)
      [] fn = "_assemble_move_to_delta" -> assemble_move_to_delta(data)
      [] fn = "lambda" -> assemble_home(data)
      [] fn = "_assemble_fault_reset" -> assemble_fault_reset(data)
      [] fn = "_assemble_get_comm_timeout" -> assemble_get_comm_timeout(data)
      [] fn = "_assemble_set_comm_timeout" -> assemble_set_comm_timeout(data)

\* self._COMMANDS[cmd_name]['parse'](*response): every parse method is 'pass'
\* (or lambda: None) and takes no argument besides self
CallParse(fn, response) ==
    IF Len(response) # 0 THEN Raise("TypeError") ELSE ReturnNone

----------------------------------------------------------------------------
(* Construction *)

\* QuicksetProtocol.__init__: self._COMMANDS
COMMANDS_TABLE ==
    [get_status |->
         [assemble |-> "_assemble_get_status", parse |-> "_parse_get_status",
          number |-> 49],
     move_absolute |->
         [assemble |-> "_assemble_move_to_entered",
          parse |-> "_parse_move_to_entered", number |-> 51],
     move_delta |->
         [assemble |-> "_assemble_move_to_delta",
          parse |-> "_parse_move_to_delta", number |-> 52],
     home |->
         [assemble |-> "lambda", parse |-> "lambda", number |-> 53],
     fault_reset |->
         [assemble |-> "_assemble_fault_reset", parse |-> "_parse_fault_reset",
          number |-> 49],
     get_comm_timeout |->
         [assemble |-> "_assemble_get_comm_timeout",
          parse |-> "_parse_get_comm_timeout", number |-> 150],
     set_comm_timeout |->
         [assemble |-> "_assemble_set_comm_timeout",
          parse |-> "_parse_set_comm_timeout", number |-> 150]]

PTCR20_init(identity) ==
    [class |-> "PTCR20",
     COMMANDS |-> COMMANDS_TABLE,
     COMMAND_NAMES |-> DOMAIN COMMANDS_TABLE,
     identity |-> identity]

PTHR90_init ==
    [class |-> "PTHR90",
     COMMANDS |-> COMMANDS_TABLE,
     COMMAND_NAMES |-> DOMAIN COMMANDS_TABLE]

Construct(c) ==
    IF c.class = "PTCR20" THEN PTCR20_init(c.identity) ELSE PTHR90_init

----------------------------------------------------------------------------
(* Packet assembly *)

assemble_cmd_data_lrc(slf, cmd_name, data) ==
    IF cmd_name \notin slf.COMMAND_NAMES THEN Raise("NotImplementedError")
    ELSE IF cmd_name \notin DOMAIN slf.COMMANDS THEN Raise("KeyError")
    ELSE LET cmd_bytes == <<slf.COMMANDS[cmd_name].number>>
             data_bytes == CallAssemble(slf.COMMANDS[cmd_name].assemble, data)
         IN IF data_bytes.kind = "raise" THEN data_bytes
            ELSE LET pkt == IF data_bytes.kind # "None"
                            THEN cmd_bytes \o data_bytes.bytes
                            ELSE cmd_bytes
                 IN Bytes(pkt \o compute_lrc(pkt))

\* What assemble_packet hands back: the frame (or the exception), with the
\* value its local packet got from _assemble_cmd_data_lrc.
Outcome(kind, exc, frame, cdl) ==
    [kind |-> kind, exc |-> exc, frame |-> frame, packet |-> cdl]

\* PTCR20.assemble_packet with the identity inserted before the LRC is
\* computed, so that the checksum covers it
PTCR20_assemble_packet_lrc_over_identity(slf, cmd_name, data) ==
    LET r == assemble_cmd_data_lrc(slf, cmd_name, data)
    IN IF r.kind = "raise" THEN Outcome("raise", r.exc, <<>>, <<>>)
       ELSE IF slf.identity \notin Byte
       THEN Outcome("raise", "ValueError", <<>>, r.bytes)
       ELSE LET body == <<slf.identity>> \o SubSeq(r.bytes, 1, Len(r.bytes) - 1)
                withLrc == body \o compute_lrc(body)
                escaped == escape_control_chars(withLrc)
            IN Outcome("frame", "", <<STX>> \o escaped \o <<ETX>>, Tail(withLrc))

PTCR20_assemble_packet(slf, cmd_name, data) ==
    LET r == assemble_cmd_data_lrc(slf, cmd_name, data)
    IN IF r.kind = "raise" THEN Outcome("raise", r.exc, <<>>, <<>>)
       ELSE IF slf.identity \notin Byte
       THEN Outcome("raise", "ValueError", <<>>, r.bytes)
       ELSE LET withId == <<slf.identity>> \o r.bytes
                escaped == escape_control_chars(withId)
            IN Outcome("frame", "", <<STX>> \o escaped \o <<ETX>>, r.bytes)

PTHR90_assemble_packet(slf, cmd_name, data) ==
    LET r == assemble_cmd_data_lrc(slf, cmd_name, data)
    IN IF r.kind = "raise" THEN Outcome("raise", r.exc, <<>>, <<>>)
       ELSE LET escaped == escape_control_chars(r.bytes)
            IN Outcome("frame", "", <<STX>> \o escaped \o <<ETX>>, r.bytes)

----------------------------------------------------------------------------
(* Inputs of the protocol model *)

\* identity values: the default 0, a plain byte, the control character ESC,
\* and 256, which is no byte
IdentitySample == {0, 5, 27, 256}

\* pan in hundredths of a degree: tenths that are control characters (2 and
\* 27), 10.0, 10.05, a negative angle, just beyond the documented limit, the
\* hold value 999.9, and the 16-bit limit and just beyond
PanSample == {0, 20, 270, 1000, 1005, -10, 36010, 99990, 327670, 327680}

\* tilt in hundredths of a degree: a tenth that is ETX, a negative angle
\* that truncates to 0, the documented limit and just beyond, and the 16-bit
\* limit and just beyond
TiltSample == {30, -5, -18000, 18010, -327680, -327690}

TimeoutSample == {-1, 0, 27, 120, 121, 200}

UnknownNames == {"nonexistent", "stop"}

PanArgs == {None} \cup {Num(h) : h \in PanSample}
TiltArgs == {None} \cup {Num(h) : h \in TiltSample}

MoveData ==
    {<<>>} \cup {<<p>> : p \in PanArgs}
           \cup {<<p, t>> : p \in PanArgs, t \in TiltArgs}
           \cup {<<None, None, None>>}

TimeoutData ==
    {<<>>, <<None>>} \cup {<<Num(t)>> : t \in TimeoutSample}

NoData == {<<>>, <<Num(0)>>}

DataFor(cmd_name) ==
    IF cmd_name \in {"move_absolute", "move_delta"} THEN MoveData
    ELSE IF cmd_name = "set_comm_timeout" THEN TimeoutData
    ELSE NoData

CodecIdle ==
    /\ x = <<>>
    /\ packet = <<>>
    /\ i = 0
    /\ found_esc = FALSE
    /\ new_packet = <<>>
    /\ pc = "idle"

Init ==
    /\ CodecIdle
    /\ ctor \in {[class |-> "PTHR90"]}
                \cup {[class |-> "PTCR20", identity |-> id] : id \in IdentitySample}
    /\ self = Construct(ctor)
    /\ call = [op |-> "none"]
    /\ ret = [kind |-> "none"]
    /\ failed = 0

\* assemble_packet on a registry that records every name looked up (as a
\* defaultdict would): a failed lookup leaves the name in COMMAND_NAMES
assemble_packet_registering(cmd_name, data) ==
    LET r == IF self.class = "PTCR20"
             THEN PTCR20_assemble_packet(self, cmd_name, data)
             ELSE PTHR90_assemble_packet(self, cmd_name, data)
    IN /\ r.kind = "raise" => failed < MaxFailed
       /\ call' = [op |-> "assemble_packet", cmd_name |-> cmd_name, data |-> data]
       /\ ret' = r
       /\ failed' = IF r.kind = "raise" THEN failed + 1 ELSE failed
       /\ self' = [self EXCEPT !.COMMAND_NAMES = @ \cup {cmd_name}]
       /\ UNCHANGED ctor

\* variant.assemble_packet(cmd_name, *data)
assemble_packet(cmd_name, data) ==
    LET r == IF self.class = "PTCR20"
             THEN PTCR20_assemble_packet(self, cmd_name, data)
             ELSE PTHR90_assemble_packet(self, cmd_name, data)
    IN /\ r.kind = "raise" => failed < MaxFailed
       /\ call' = [op |-> "assemble_packet", cmd_name |-> cmd_name, data |-> data]
       /\ ret' = r
       /\ failed' = IF r.kind = "raise" THEN failed + 1 ELSE failed
       /\ UNCHANGED <<self, ctor>>

\* variant._COMMANDS[cmd_name]['parse'](*response): the registered parser
\* of a command is handed the response body (or nothing)
parse_response(cmd_name, response) ==
    LET r == CallParse(self.COMMANDS[cmd_name].parse, response)
    IN /\ cmd_name \in DOMAIN self.COMMANDS
       /\ r.kind = "raise" => failed < MaxFailed
       /\ call' = [op |-> "parse", cmd_name |-> cmd_name, data |-> response]
       /\ ret' = Outcome(r.kind, r.exc, <<>>, <<>>)
       /\ failed' = IF r.kind = "raise" THEN failed + 1 ELSE failed
       /\ UNCHANGED <<self, ctor>>

Next ==
    \/ \E cmd_name \in DOMAIN COMMANDS_TABLE \cup UnknownNames :
         \E data \in DataFor(cmd_name) :
           assemble_packet(cmd_name, data) /\ UNCHANGED codecVars
    \/ \E cmd_name \in DOMAIN COMMANDS_TABLE :
         \E response \in {<<>>, <<<<ACK>>>>} :
           parse_response(cmd_name, response) /\ UNCHANGED codecVars

Spec == Init /\ [][Next]_vars

----------------------------------------------------------------------------
(* The unescape scan as section 4.3 of the specification words it; used   *)
(* only to state the claims about remove_escape_sequences.                 *)

\* the 'previous byte was ESC' flag after the first n bytes of p
RECURSIVE ScanFlag(_, _)
ScanFlag(p, n) ==
    IF n = 0 THEN FALSE
    ELSE p[n] = ESC /\ ~ScanFlag(p, n - 1)

\* the bytes emitted for the first n bytes of p
RECURSIVE ScanOut(_, _)
ScanOut(p, n) ==
    IF n = 0 THEN <<>>
    ELSE IF ScanFlag(p, n - 1) THEN Append(ScanOut(p, n - 1), ClearBit7(p[n]))
    ELSE IF p[n] = ESC THEN ScanOut(p, n - 1)
    ELSE Append(ScanOut(p, n - 1), p[n])

\* p ends with an ESC that opens a pair and has no byte after it
TrailingEsc(p) == ScanFlag(p, Len(p))

\* C1: round trip: remove_escape_sequences(escape_control_chars(x)) equals x
\* for every byte sequence x.
C1_RoundTrip ==
    (pc = "returned" /\ packet = escape_control_chars(x)) => new_packet = x

\* C8: remove_escape_sequences on a byte sequence that ends with an unpaired
\* trailing ESC fails with TruncatedEscape instead of returning bytes.
C8_TrailingEscFails ==
    TrailingEsc(packet) => pc # "returned"

\* C9: the found_esc flag is true only while the byte right after an
\* unescaped ESC is processed; bit 7 is cleared on exactly those bytes, every
\* other non-ESC byte is emitted unchanged, and an ESC met while the flag is
\* true is emitted as data.
C9_UnescapeScan ==
    /\ pc = "loop" => found_esc = ScanFlag(packet, i)
    /\ pc = "loop" => new_packet = ScanOut(packet, i)
    /\ (pc = "returned" /\ ~TrailingEsc(packet))
           => new_packet = ScanOut(packet, Len(packet))

----------------------------------------------------------------------------
(* Claims about assemble_packet and the parsers (specification Spec) *)

IsAssemble == call.op = "assemble_packet"
Registered == DOMAIN COMMANDS_TABLE
MoveNames == {"move_absolute", "move_delta"}

RECURSIVE Pow2(_)
Pow2(k) == IF k = 0 THEN 1 ELSE 2 * Pow2(k - 1)

\* the byte whose bit k is the parity of the number of bytes of bs with bit
\* k set: the XOR of all bytes of bs, stated without a fold
RECURSIVE ParityFrom(_, _)
ParityFrom(bs, k) ==
    IF k = 8 THEN 0
    ELSE Pow2(k) * (Cardinality({j \in 1..Len(bs) : (bs[j] \div Pow2(k)) % 2 = 1}) % 2)
         + ParityFrom(bs, k + 1)

ParityLrc(bs) == ParityFrom(bs, 0)

\* the data bytes the command's assembler gives for the call's arguments
AssembledData ==
    CallAssemble(COMMANDS_TABLE[call.cmd_name].assemble, call.data)

\* C2: for the unaddressed variant, every registered command and every valid
\* argument list, assemble_packet returns STX, then the escaped opcode, data
\* and LRC (the XOR of opcode and data), then ETX; assemble_packet("home")
\* returns 02 35 35 03.
C2_FrameShape ==
    (self.class = "PTHR90" /\ IsAssemble /\ call.cmd_name \in Registered
        /\ AssembledData.kind # "raise")
    => LET body == <<COMMANDS_TABLE[call.cmd_name].number>> \o AssembledData.bytes
       IN /\ ret.kind = "frame"
          /\ ret.frame = <<STX>>
                         \o escape_control_chars(body \o <<ParityLrc(body)>>)
                         \o <<ETX>>
          /\ (call.cmd_name = "home" => ret.frame = <<2, 53, 53, 3>>)

C2_Witness ==
    /\ self.class = "PTHR90" /\ IsAssemble /\ ret.kind = "frame"
    /\ call.cmd_name = "move_absolute" /\ Len(call.data) = 2
    /\ Len(ret.frame) > Len(ret.packet) + 2

\* C3: the frame of the addressed variant is the frame of the unaddressed
\* variant for the same command and arguments with the escaped identity byte
\* inserted right after STX; the LRC byte is the same, the identity is not
\* part of the checksum.
C3_IdentityPlacement ==
    (self.class = "PTCR20" /\ IsAssemble /\ self.identity \in Byte)
    => LET h == PTHR90_assemble_packet(PTHR90_init, call.cmd_name, call.data)
       IN /\ ret.kind = h.kind
          /\ ret.kind = "frame"
               => /\ ret.frame = <<STX>> \o escape_control_chars(<<self.identity>>)
                                  \o Tail(h.frame)
                  /\ ret.packet[Len(ret.packet)]
                       = ParityLrc(SubSeq(h.packet, 1, Len(h.packet) - 1))

C3_Witness ==
    /\ self.class = "PTCR20" /\ IsAssemble /\ ret.kind = "frame"
    /\ self.identity = ESC
    /\ call.cmd_name = "move_delta" /\ Len(call.data) = 2

\* the bytes strictly between the leading STX and the trailing ETX
FrameBody(frame) == SubSeq(frame, 2, Len(frame) - 1)

\* C4: in every frame either variant returns, no byte between the leading STX
\* and the trailing ETX is STX, ETX, ACK or NACK, and every ESC there opens a
\* two-byte pair whose second byte has bit 7 set and is no control character.
C4_BodyHasNoControlChars ==
    (IsAssemble /\ ret.kind = "frame")
    => LET body == FrameBody(ret.frame)
       IN /\ Len(ret.frame) >= 2
          /\ ret.frame[1] = STX
          /\ ret.frame[Len(ret.frame)] = ETX
          /\ \A k \in 1..Len(body) :
               /\ body[k] \notin {STX, ETX, ACK, NACK}
               /\ body[k] = ESC
                    => /\ k < Len(body)
                       /\ body[k + 1] >= 128
                       /\ body[k + 1] \notin CONTROL_CHARS

C4_Witness ==
    /\ IsAssemble /\ ret.kind = "frame"
    /\ \E k \in 1..Len(FrameBody(ret.frame)) : FrameBody(ret.frame)[k] = ESC
    /\ \E k \in 1..Len(ret.packet) : ret.packet[k] = ETX

\* the k-th positional argument is given, is a number and lies outside lo..hi
OutOfRange(k, lo, hi) ==
    /\ Len(call.data) >= k
    /\ ~call.data[k].none
    /\ (call.data[k].v < lo \/ call.data[k].v > hi)

\* the call has an argument outside its documented range
ArgumentOutOfRange ==
    \/ /\ call.cmd_name = "set_comm_timeout"
       /\ OutOfRange(1, 0, 120)
    \/ /\ call.cmd_name \in MoveNames
       /\ \/ OutOfRange(1, -36000, 36000)
             /\ ~(call.cmd_name = "move_absolute" /\ call.data[1].v = 99990)
          \/ OutOfRange(2, -18000, 18000)
             /\ ~(call.cmd_name = "move_absolute" /\ call.data[2].v = 99990)

\* C5: assemble_packet fails and returns no frame whenever an argument is
\* outside its documented range (timeout outside 0..120, pan outside
\* -360.0..360.0, tilt outside -180.0..180.0, the hold value 999.9 excepted).
C5_ArgumentRejected ==
    (IsAssemble /\ ArgumentOutOfRange) => (ret.kind = "raise" /\ ret.frame = <<>>)

\* the frame a freshly constructed variant returns for the last call
FreshOutcome ==
    LET fresh == Construct(ctor)
    IN IF fresh.class = "PTCR20"
       THEN PTCR20_assemble_packet(fresh, call.cmd_name, call.data)
       ELSE PTHR90_assemble_packet(fresh, call.cmd_name, call.data)

\* C6: assemble_packet with an unregistered command name fails with the
\* unknown-command error and returns no frame; after any sequence of failed
\* calls the registry and the identity are as constructed, and every call
\* returns what it returns on a freshly constructed variant.
C6_FailureIsolation ==
    /\ (IsAssemble /\ call.cmd_name \notin Registered)
         => (ret.kind = "raise" /\ ret.exc = "NotImplementedError"
             /\ ret.frame = <<>>)
    /\ self = Construct(ctor)
    /\ IsAssemble => ret = FreshOutcome

C6_Witness ==
    /\ failed >= 2
    /\ IsAssemble /\ ret.kind = "frame"
    /\ call.cmd_name = "set_comm_timeout"

UnimplementedParsers ==
    {"get_status", "move_absolute", "move_delta", "get_comm_timeout",
     "set_comm_timeout"}

\* C7: the response parser of get_status, move_absolute, move_delta,
\* get_comm_timeout and set_comm_timeout ends in an explicit not-implemented
\* failure and never returns a default or empty value.
C7_UnimplementedParserFails ==
    (call.op = "parse" /\ call.cmd_name \in UnimplementedParsers)
    => (ret.kind = "raise"
        /\ ret.exc \in {"NotImplemented", "NotImplementedError"})

\* t is h hundredths of a degree in tenths of a degree, truncated toward zero
IsTenthsOf(t, h) ==
    IF h >= 0 THEN 10 * t <= h /\ h < 10 * t + 10
    ELSE 10 * t >= h /\ h > 10 * t - 10

\* the 16-bit two's-complement value of the little-endian bytes lo, hi
Signed16(lo, hi) ==
    IF lo + 256 * hi >= 32768 THEN lo + 256 * hi - 65536 ELSE lo + 256 * hi

\* bytes lo, hi encode the k-th argument of the call, an absent one as dflt
EncodesAxis(lo, hi, k, dflt) ==
    /\ lo \in Byte
    /\ hi \in Byte
    /\ IF Len(call.data) >= k /\ ~call.data[k].none
       THEN IsTenthsOf(Signed16(lo, hi), call.data[k].v)
       ELSE Signed16(lo, hi) = dflt

\* C10: for move_absolute and move_delta the data is 4 bytes, the 16-bit
\* little-endian two's-complement pan in tenths of a degree, then the tilt;
\* an absent axis is 9999 for move_absolute and 0 for move_delta;
\* move_delta(10.0) has the body 34 64 00 00 00 and the LRC 50.
C10_MoveEncoding ==
    (IsAssemble /\ call.cmd_name \in MoveNames /\ ret.kind = "frame")
    => LET p == ret.packet
           dflt == IF call.cmd_name = "move_absolute" THEN 9999 ELSE 0
       IN /\ Len(p) = 6
          /\ p[1] = COMMANDS_TABLE[call.cmd_name].number
          /\ EncodesAxis(p[2], p[3], 1, dflt)
          /\ EncodesAxis(p[4], p[5], 2, dflt)
          /\ (call.cmd_name = "move_delta" /\ call.data \in {<<Num(1000)>>, <<Num(1000), None>>})
               => p = <<52, 100, 0, 0, 0, 80>>

C10_Witness ==
    /\ IsAssemble /\ ret.kind = "frame"
    /\ call.cmd_name = "move_delta"
    /\ call.data = <<Num(1000)>>
    /\ ret.packet = <<52, 100, 0, 0, 0, 80>>

====
